---- MODULE Spec2Model ----
(***************************************************************************)
(* sndadj: pitch-synchronous speed change of a wave file (src/sndadj.c).   *)
(*                                                                         *)
(* The program is sequential.  Its state is the set of file-scope statics  *)
(* of sndadj.c plus the sample memory; one action stands for each function *)
(* main runs in order.  Doubles are modelled as exact rationals: speed is  *)
(* the pair <<num, den>>, exactInputPos is kept as a numerator over den,   *)
(* and a frame entry is a pair <<num, den>> with den the frame's period.   *)
(***************************************************************************)
EXTENDS Integers, Sequences, FiniteSets

\* ---------------------------------------------------------------- constants
MIN_FREQ == 65
MAX_FREQ == 135
OutputSlack == 4096
VoicedThreshold == 100

\* ------------------------------------------------------------------- bounds
\* longest wave file (in samples) given to the program
MaxFileLen == 7
\* samples asked of readFromWaveFile per call (1024 in the source)
ReadChunk == 2

\* values a 16-bit sample takes in the model
SampleVals == {0, 300}
\* sample rates of the input files: 135 Hz gives periods 1..2, 270 Hz 2..4
SampleRates == {135, 270}
\* speeds given on the command line, as <<numerator, denominator>>
Speeds == {<<1, 2>>, <<1, 1>>, <<2, 1>>, <<5, 1>>}

VARIABLES
    pc,               \* where main is
    speed,            \* <<num, den>>
    sampleRate,
    minPeriod, maxPeriod,
    inputSamples,     \* the memory at inputSamples[0..], index |-> short
    inputSize,        \* shorts allocated at inputSamples
    inputLength,
    outputSamples,    \* the samples written so far (outputPos of them)
    outputLength,
    inputPos, outputPos,
    exactInputPos,    \* numerator over speed[2]
    period, prevPeriod, stepSize,
    filter, prevFilter,       \* frame buffers, 1-based sequences of <<num, den>>
    filterPos, prevFilterPos,
    prevPeriodVoiced,
    loc               \* locals of the last generateSamplesForOneStep

vars == <<pc, speed, sampleRate, minPeriod, maxPeriod, inputSamples, inputSize,
          inputLength, outputSamples, outputLength, inputPos, outputPos,
          exactInputPos, period, prevPeriod, stepSize, filter, prevFilter,
          filterPos, prevFilterPos, prevPeriodVoiced, loc>>

\* ------------------------------------------------------------------ helpers
min(a, b) == IF a <= b THEN a ELSE b
max(a, b) == IF a >= b THEN a ELSE b
Abs(x) == IF x >= 0 THEN x ELSE -x

\* C integer division (truncation toward zero)
CDiv(a, b) ==
    IF (a >= 0) = (b > 0) THEN Abs(a) \div Abs(b) ELSE -(Abs(a) \div Abs(b))

NoLocals ==
    [samples |-> 0, start |-> 0, stop |-> 0, bestPeriod |-> 0, minDiff |-> 1,
     totalDiff |-> 0, aveDiff |-> 0, wasVoiced |-> FALSE, reads |-> {},
     ratios |-> <<>>, numGenerated |-> 0]

\* statics as the C runtime initialises them (lines 28-38)
Init ==
    /\ pc = "main"
    /\ speed = <<0, 1>>
    /\ sampleRate = 0
    /\ minPeriod = 0 /\ maxPeriod = 0
    /\ inputSamples = <<>>
    /\ inputSize = 0
    /\ inputLength = 0
    /\ outputSamples = <<>>
    /\ outputLength = 0
    /\ inputPos = 0 /\ outputPos = 0
    /\ exactInputPos = 0
    /\ period = 0 /\ prevPeriod = 0 /\ stepSize = 0
    /\ filter = <<>> /\ prevFilter = <<>>
    /\ filterPos = 0 /\ prevFilterPos = 0
    /\ prevPeriodVoiced = FALSE
    /\ loc = NoLocals

\* main, lines 206-210: the arguments are present, speed = atof(argv[1])
ParseArgs ==
    /\ pc = "main"
    /\ \E sp \in Speeds : speed' = sp
    /\ pc' = "read"
    /\ UNCHANGED <<sampleRate, minPeriod, maxPeriod, inputSamples, inputSize,
                   inputLength, outputSamples, outputLength, inputPos, outputPos,
                   exactInputPos, period, prevPeriod, stepSize, filter,
                   prevFilter, filterPos, prevFilterPos, prevPeriodVoiced, loc>>

\* readWaveFile's loop, lines 183-190: len = inputLength so far, size =
\* inputSize, left = samples still in the file.  The result is <<inputLength,
\* inputSize>> when readFromWaveFile first returns 0.
RECURSIVE ReadLoop(_, _, _)
ReadLoop(len, size, left) ==
    LET samplesRead == min(ReadChunk, left)
        len2 == len + samplesRead
        size2 == IF len2 + ReadChunk + 2 * maxPeriod >= size THEN 2 * size ELSE size
    IN  IF samplesRead > 0 THEN ReadLoop(len2, size2, left - samplesRead)
        ELSE <<len2, size2>>

\* The cells of the sample memory a run over a file of n samples can read:
\* the driver loop runs while inputPos < n, the evaluation point is inputPos +
\* stepSize with stepSize at most maxPeriod, and the estimator reads from
\* period samples before it to period - 1 samples after it, for periods from
\* minPeriod to maxPeriod, starting at inputPos = maxPeriod.  The model keeps
\* exactly these cells, whatever was allocated.
MemCells(rate, n) ==
    (rate \div MAX_FREQ)..(n + 2 * (rate \div MIN_FREQ) - 2)

\* readWaveFile, lines 174-193, called from main line 211 with maxPeriod
\* still 0.  The file holds n samples.  Cells [0, n) hold the file, cells of
\* the first calloc that the file did not overwrite stay 0, cells zeroed by
\* the memset are 0, and every other cell (realloc'ed and never written, or
\* past the allocation) holds an arbitrary value.
ReadWaveFile ==
    /\ pc = "read"
    /\ \E rate \in SampleRates, n \in 0..MaxFileLen :
         LET firstSize == ReadChunk + 2 * maxPeriod
             r == ReadLoop(maxPeriod, firstSize, n)
             zeroed == maxPeriod \div 2   \* memset counts bytes, shorts are 2
         IN  /\ sampleRate' = rate
             /\ inputLength' = r[1]
             /\ inputSize' = r[2]
             /\ \E m \in [MemCells(rate, n) -> SampleVals] :
                  /\ \A i \in DOMAIN m :
                       /\ (i < maxPeriod) => m[i] = 0
                       /\ (i >= r[1] /\ i < firstSize) => m[i] = 0
                       /\ (i >= r[1] /\ i < r[1] + zeroed) => m[i] = 0
                  /\ inputSamples' = m
    /\ pc' = "setup"
    /\ UNCHANGED <<speed, minPeriod, maxPeriod, outputSamples, outputLength,
                   inputPos, outputPos, exactInputPos, period, prevPeriod,
                   stepSize, filter, prevFilter, filterPos, prevFilterPos,
                   prevPeriodVoiced, loc>>

\* main, lines 212-220
MainSetup ==
    /\ pc = "setup"
    /\ minPeriod' = sampleRate \div MAX_FREQ
    /\ maxPeriod' = sampleRate \div MIN_FREQ
    /\ period' = sampleRate \div MAX_FREQ
    /\ stepSize' = (sampleRate \div MAX_FREQ) \div 2
    /\ prevFilter' = [i \in 1..(sampleRate \div MIN_FREQ) |-> <<0, 1>>]
    /\ filter' = [i \in 1..(sampleRate \div MIN_FREQ) |-> <<0, 1>>]
    /\ outputLength' = (inputLength * speed[2]) \div speed[1] + OutputSlack
    /\ pc' = "playAll"
    /\ UNCHANGED <<speed, sampleRate, inputSamples, inputSize, inputLength,
                   outputSamples, inputPos, outputPos, exactInputPos, prevPeriod,
                   filterPos, prevFilterPos, prevPeriodVoiced, loc>>

\* playAll, lines 164-166
PlayAllInit ==
    /\ pc = "playAll"
    /\ inputPos' = maxPeriod
    /\ exactInputPos' = maxPeriod * speed[2]
    /\ period' = minPeriod
    /\ pc' = "loop"
    /\ UNCHANGED <<speed, sampleRate, minPeriod, maxPeriod, inputSamples,
                   inputSize, inputLength, outputSamples, outputLength, outputPos,
                   prevPeriod, stepSize, filter, prevFilter, filterPos,
                   prevFilterPos, prevPeriodVoiced, loc>>

\* ------------------------------------------------------- findPitchPeriod
\* *s and *p of lines 68-69: the short at an index of the sample memory
Sample(i) == IF i \in DOMAIN inputSamples THEN inputSamples[i] ELSE 0

\* lines 64-71: the sum of |samples[-p+i] - samples[i]| for i in [0, p)
RECURSIVE DiffFrom(_, _, _)
DiffFrom(e, p, i) ==
    IF i >= p THEN 0
    ELSE Abs(Sample(e - p + i) - Sample(e + i)) + DiffFrom(e, p, i + 1)

Diff(e, p) == DiffFrom(e, p, 0)

\* lines 56-62, start of the searched range
SearchStart(voiced, prevP) ==
    IF voiced THEN max(minPeriod, (prevP * 2) \div 3) ELSE minPeriod

\* SearchStop without the clamp to maxPeriod
SearchStopUnclamped(voiced, prevP) ==
    IF voiced THEN (prevP * 3) \div 2 ELSE maxPeriod

\* lines 56-62, end of the searched range
SearchStop(voiced, prevP) ==
    IF voiced THEN min(maxPeriod, (prevP * 3) \div 2) ELSE maxPeriod

\* Better with <= for <
BetterOrEqual(diff, p, minDiff, bestPeriod) == diff * bestPeriod <= minDiff * p

\* line 73
Better(diff, p, minDiff, bestPeriod) == diff * bestPeriod < minDiff * p

\* lines 63-77, from candidate p on
RECURSIVE SearchLoop(_, _, _, _, _, _)
SearchLoop(p, stop, e, bestPeriod, minDiff, totalDiff) ==
    IF p > stop
    THEN [bestPeriod |-> bestPeriod, minDiff |-> minDiff, totalDiff |-> totalDiff]
    ELSE LET diff == Diff(e, p)
             total2 == totalDiff + (diff \div p)
         IN  IF Better(diff, p, minDiff, bestPeriod)
             THEN SearchLoop(p + 1, stop, e, p, diff, total2)
             ELSE SearchLoop(p + 1, stop, e, bestPeriod, minDiff, total2)

\* line 78; the caller has checked the divisor
AveDiff(totalDiff, start, stop) == totalDiff \div (stop - start)

\* line 81
Voiced(minDiff, bestPeriod, aveDiff) ==
    (minDiff \div bestPeriod) <= (aveDiff \div 2) /\ aveDiff > VoicedThreshold

\* the indices findPitchPeriod reads for the range start..stop around e
SearchReads(e, start, stop) ==
    UNION {(e - p)..(e + p - 1) : p \in start..stop}

\* findPitchPeriod, lines 47-88, at evaluation point e.  fault is TRUE when
\* line 78 (stop = start) or line 80 (bestPeriod = 0) divides by zero, and
\* then the function does not return.
FindPitchPeriod(e, voiced, prevP) ==
    LET start == SearchStart(voiced, prevP)
        stop == SearchStop(voiced, prevP)
        r == SearchLoop(start, stop, e, 0, 1, 0)
        fault == stop = start \/ r.bestPeriod = 0
        ave == IF fault THEN 0 ELSE AveDiff(r.totalDiff, start, stop)
    IN  [start |-> start, stop |-> stop, bestPeriod |-> r.bestPeriod,
         minDiff |-> r.minDiff, totalDiff |-> r.totalDiff, fault |-> fault,
         aveDiff |-> ave,
         voiced |-> IF fault THEN voiced ELSE Voiced(r.minDiff, r.bestPeriod, ave)]

\* --------------------------------------------------------- computeFilter
\* FrameValue with the two weights exchanged
FrameValueSwapped(e, p, i) ==
    <<(p - i) * Sample(e - p + i) + i * Sample(e + i), p>>

\* line 104 at index i: ratio*(*p) + (1 - ratio)*(*q) with ratio = i/period,
\* p = samples - period + i, q = samples + i, as a fraction over period
FrameValue(e, p, i) == <<i * Sample(e - p + i) + (p - i) * Sample(e + i), p>>

\* lines 102-105: the first p entries of the buffer f are rewritten
WriteFrame(f, e, p) ==
    [k \in DOMAIN f |-> IF k <= p THEN FrameValue(e, p, k - 1) ELSE f[k]]

\* lines 107-113
FramePhase(prevPos, step, p) == (prevPos - step) % p

\* ----------------------------------------------------------- playFilters
Entry(f, i) == IF (i + 1) \in DOMAIN f THEN f[i + 1] ELSE <<0, 1>>

\* line 128: (1.0 - ratio)*prevFilter[prevFilterPos] + ratio*filter[filterPos]
\* with ratio = delta/whole, converted to short
Blend(delta, whole, a, b) ==
    CDiv((whole - delta) * a[1] * b[2] + delta * b[1] * a[2], whole * a[2] * b[2])

NextPos(pos, p) == IF pos + 1 = p THEN 0 ELSE pos + 1

\* line 124, on ratio = delta/whole
BadRatio(delta, whole) == delta < 0 \/ delta > whole

\* line 137, on exactInputPos - inputPos = delta/den and stepSize = whole/den
KeepPlaying(delta, whole) == delta < whole

\* the do-while of lines 122-137.  st holds outputPos, the two frame cursors,
\* exactInputPos, the output and the ratios computed; base is inputPos and
\* whole is stepSize, both times the denominator of speed.
RECURSIVE PlayLoop(_, _, _, _, _, _, _)
PlayLoop(st, base, whole, pf, f, prevP, p) ==
    LET delta == st.exact - base
        st1 == [st EXCEPT !.ratios = Append(@, <<delta, whole>>)]
    IN  IF BadRatio(delta, whole) THEN [st1 EXCEPT !.bad = TRUE]
        ELSE LET st2 == [st1 EXCEPT
                     !.out = Append(@, Blend(delta, whole, Entry(pf, st.prevFilterPos),
                                             Entry(f, st.filterPos))),
                     !.outputPos = @ + 1,
                     !.prevFilterPos = NextPos(@, prevP),
                     !.filterPos = NextPos(@, p),
                     !.numGenerated = @ + 1,
                     !.exact = @ + speed[1]]
             IN  IF KeepPlaying(st2.exact - base, whole)
                 THEN PlayLoop(st2, base, whole, pf, f, prevP, p)
                 ELSE st2

\* --------------------------------------------- generateSamplesForOneStep
\* One turn of playAll's loop, lines 167-168 and 144-159.  The process dies
\* inside it when findPitchPeriod divides by zero (pc "sigfpe") or when
\* playFilters finds a bad ratio (pc "exit1").
GenerateSamplesForOneStep ==
    /\ pc = "loop"
    /\ inputPos < inputLength
    /\ LET e == inputPos + period
           fp == FindPitchPeriod(e, prevPeriodVoiced, period)
           newFilter == WriteFrame(prevFilter, e, fp.bestPeriod)
           phase == FramePhase(filterPos, period, fp.bestPeriod)
           st0 == [outputPos |-> outputPos, prevFilterPos |-> filterPos,
                   filterPos |-> phase, exact |-> exactInputPos,
                   out |-> outputSamples, ratios |-> <<>>, numGenerated |-> 0,
                   bad |-> FALSE]
           st == PlayLoop(st0, inputPos * speed[2], period * speed[2], filter,
                          newFilter, period, fp.bestPeriod)
           locals == [samples |-> e, start |-> fp.start, stop |-> fp.stop,
                      bestPeriod |-> fp.bestPeriod, minDiff |-> fp.minDiff,
                      totalDiff |-> fp.totalDiff, aveDiff |-> fp.aveDiff,
                      wasVoiced |-> prevPeriodVoiced,
                      reads |-> SearchReads(e, fp.start, fp.stop),
                      ratios |-> <<>>, numGenerated |-> 0]
       IN  /\ stepSize' = period
           /\ prevPeriod' = period
           /\ prevFilter' = filter
           /\ prevPeriodVoiced' = fp.voiced
           /\ IF fp.fault
              THEN /\ pc' = "sigfpe"
                   /\ filter' = prevFilter
                   /\ prevFilterPos' = filterPos
                   /\ loc' = locals
                   /\ UNCHANGED <<period, filterPos, outputSamples, outputPos,
                                  exactInputPos, inputPos>>
              ELSE /\ period' = fp.bestPeriod
                   /\ filter' = newFilter
                   /\ outputSamples' = st.out
                   /\ outputPos' = st.outputPos
                   /\ prevFilterPos' = st.prevFilterPos
                   /\ filterPos' = st.filterPos
                   /\ exactInputPos' = st.exact
                   /\ loc' = [locals EXCEPT !.ratios = st.ratios,
                                            !.numGenerated = st.numGenerated]
                   /\ IF st.bad
                      THEN pc' = "exit1" /\ inputPos' = inputPos
                      ELSE pc' = "loop" /\ inputPos' = inputPos + period
    /\ UNCHANGED <<speed, sampleRate, minPeriod, maxPeriod, inputSamples,
                   inputSize, inputLength, outputLength>>

\* playAll returns (line 167 false) and main writes the output, lines 221-223
WriteWaveFile ==
    /\ pc = "loop"
    /\ inputPos >= inputLength
    /\ pc' = "done"
    /\ UNCHANGED <<speed, sampleRate, minPeriod, maxPeriod, inputSamples,
                   inputSize, inputLength, outputSamples, outputLength, inputPos,
                   outputPos, exactInputPos, period, prevPeriod, stepSize, filter,
                   prevFilter, filterPos, prevFilterPos, prevPeriodVoiced, loc>>

Next ==
    \/ ParseArgs
    \/ ReadWaveFile
    \/ MainSetup
    \/ PlayAllInit
    \/ GenerateSamplesForOneStep
    \/ WriteWaveFile

Spec == Init /\ [][Next]_vars
\* ------------------------------------------------------------ the claims
\* at least one step was entered / findPitchPeriod returned in the last step
StepEntered == loc.samples > 0
Returned == StepEntered /\ pc # "sigfpe"
\* the last step ran to its end (inputPos += stepSize was executed)
StepCompleted == StepEntered /\ pc \in {"loop", "done"}

\* C1: every crossfade ratio computed in playFilters lies in [0, 1], so the
\* "Bad ratio" exit is never taken.
C1_RatioInUnitInterval ==
    /\ pc # "exit1"
    /\ \A k \in DOMAIN loc.ratios :
         0 <= loc.ratios[k][1] /\ loc.ratios[k][1] <= loc.ratios[k][2]

\* C2: every index read by findPitchPeriod and computeFilter in a step lies
\* inside the signal with a guard of maxPeriod samples after inputLength: none
\* falls before the buffer start or past the end guard.
C2_ReadsInsideGuardedSignal ==
    \A i \in loc.reads :
        /\ 0 <= i
        /\ i < inputLength + maxPeriod

\* C3: the period findPitchPeriod returns to generateSamplesForOneStep lies in
\* [minPeriod, maxPeriod] and is never 0.
C3_PeriodInRange ==
    Returned =>
        /\ period = loc.bestPeriod
        /\ period > 0
        /\ minPeriod <= period
        /\ period <= maxPeriod

\* a narrowed search (previous step voiced) returned the top of its range
C3_Witness ==
    /\ Returned
    /\ loc.wasVoiced
    /\ loc.stop < maxPeriod
    /\ period = loc.stop
    /\ period > minPeriod

\* C4: when the run has ended, outputPos differs from inputLength/speed by at
\* most maxPeriod/speed + 1 (all terms multiplied by the numerator of speed).
C4_OutputCount ==
    pc \in {"done", "exit1", "sigfpe"} =>
        Abs(outputPos * speed[1] - inputLength * speed[2])
            <= maxPeriod * speed[2] + speed[1]

\* C5: at the end of every step 0 <= exactInputPos - inputPos < stepSize.
C5_CursorInsideStep ==
    StepCompleted =>
        /\ 0 <= exactInputPos - inputPos * speed[2]
        /\ exactInputPos - inputPos * speed[2] < stepSize * speed[2]

\* C6: the run stops only because the driver loop has reached inputPos >=
\* inputLength: a stopped process has left playAll through its loop condition.
C6_StopsOnlyAtEndOfInput ==
    pc \in {"done", "exit1", "sigfpe"} => (pc = "done" /\ inputPos >= inputLength)

\* the samples from maxPeriod before e to maxPeriod - 1 after it are all equal
ConstantWindow(e) ==
    \A i \in (e - maxPeriod)..(e + maxPeriod - 1) : Sample(i) = Sample(e)

\* C7: on a window of equal samples findPitchPeriod does not fail, returns
\* the smallest candidate of the searched range and classifies unvoiced.
C7_ConstantWindow ==
    (StepEntered /\ ConstantWindow(loc.samples)) =>
        /\ pc # "sigfpe"
        /\ period = loc.start
        /\ period > 0
        /\ ~prevPeriodVoiced

\* C8: the period chosen is the smallest period of the searched range that
\* minimizes diff(p)/p (ratios compared exactly, by cross-multiplication).
C8_SmallestMinimizer ==
    StepEntered =>
        LET e == loc.samples
            b == loc.bestPeriod
        IN  /\ b \in loc.start..loc.stop
            /\ Returned => period = b
            /\ \A q \in loc.start..loc.stop :
                 /\ Diff(e, b) * q <= Diff(e, q) * b
                 /\ Diff(e, b) * q = Diff(e, q) * b => b <= q

C8_Witness ==
    /\ Returned
    /\ Diff(loc.samples, period) > 0
    /\ \E q \in (period + 1)..loc.stop :
         Diff(loc.samples, period) * q = Diff(loc.samples, q) * period
    /\ \E q \in loc.start..loc.stop :
         Diff(loc.samples, period) * q < Diff(loc.samples, q) * period

\* the sum of diff(p)/p over the candidates from..to
RECURSIVE SumOfAverages(_, _, _)
SumOfAverages(e, from, to) ==
    IF from > to THEN 0
    ELSE (Diff(e, from) \div from) + SumOfAverages(e, from + 1, to)

\* C9: the voicing flag is true exactly when minDiff/bestPeriod <= aveDiff/2
\* and aveDiff > 100, aveDiff being the sum of diff(p)/p over the candidates
\* divided by the number of candidates searched.
C9_VoicedByAverage ==
    Returned =>
        LET count == loc.stop - loc.start + 1
            ave == SumOfAverages(loc.samples, loc.start, loc.stop) \div count
        IN  prevPeriodVoiced =
                (/\ (loc.minDiff \div loc.bestPeriod) <= (ave \div 2)
                 /\ ave > VoicedThreshold)

\* what a step leaves alone in the frame buffers: the previous frame is the
\* old current one, and the new frame's buffer keeps its entries from period on
FrameBuffersKept ==
    /\ prevFilter' = filter
    /\ Len(filter') = Len(prevFilter)
    /\ \A k \in DOMAIN filter' : k > period' => filter'[k] = prevFilter[k]

StepReturns == pc = "loop" /\ pc' \in {"loop", "exit1"} /\ loc'.samples > 0

\* C10 as stated: the frame blends the p samples ending at e (present, weight
\* 1 - i/p) with the p samples ending one period earlier (past, weight i/p).
C10_BlendsPastAndPresent ==
    [][StepReturns =>
        /\ FrameBuffersKept
        /\ \A i \in 0..(period' - 1) :
             LET e == loc'.samples
                 p == period'
                 past == Sample(e - 2 * p + i)
                 present == Sample(e - p + i)
             IN  p * filter'[i + 1][1]
                     = filter'[i + 1][2] * (i * past + (p - i) * present)]_vars

\* C10 amended: the frame blends the p samples ending at e (weight i/p) with
\* the p samples starting at e (weight 1 - i/p); only entries [0, p) of the
\* current buffer are written and the previous frame is left unchanged.
C10_BlendsBeforeAndAfter ==
    [][StepReturns =>
        /\ FrameBuffersKept
        /\ \A i \in 0..(period' - 1) :
             LET e == loc'.samples
                 p == period'
                 before == Sample(e - p + i)
                 after == Sample(e + i)
             IN  p * filter'[i + 1][1]
                     = filter'[i + 1][2] * (i * before + (p - i) * after)]_vars

\* a step has built a frame whose two source cycles differ, next to a previous
\* frame that is not all zero
C10_Witness ==
    /\ Returned
    /\ period > 1
    /\ \E i \in 1..(period - 1) :
         /\ Sample(loc.samples - period + i) # Sample(loc.samples + i)
         /\ filter[i + 1][1] > 0
    /\ \E k \in DOMAIN prevFilter : prevFilter[k][1] > 0
====
